---- MODULE Spec2Model ----
(***************************************************************************)
(* Model of the three demonstration routines of golang-demo (mapsdemo,     *)
(* slice, variables) and of the Go built-ins they exercise: the map        *)
(* (m[k] = v, m[k], delete, clear, len, maps.Equal) and the slice (make,   *)
(* index, append, copy, s[low:high], slices.Equal) over a heap of backing  *)
(* arrays, together with fmt.Println's rendering of the printed values.    *)
(***************************************************************************)
EXTENDS Integers, Sequences, FiniteSets, TLC

\* ------------------------------------------------------------------ bounds

\* append may reserve up to this many elements beyond the needed length
GrowSlack == 2
\* most operations the subrange exploration applies
MaxOps == 3
\* most appends the append exploration applies
MaxAppends == 2
\* most operations the copy exploration applies
MaxCopyOps == 2

VARIABLES
    fn, line, todo, out, base,          \* control: routine, statement, stdout
    m, v1, v3, prs, n, n2,              \* locals of mapsdemo
    heap, s, c, l, t, t2, twoD, i, j, innerLen,  \* locals of slice, and the backing arrays
    vr,                                 \* locals of variables
    last, low, link, ops               \* exploration: the last operation applied

ctl == <<fn, line, todo, out, base>>
mapVars == <<m, v1, v3, prs, n, n2>>
sliceVars == <<heap, s, c, l, t, t2, twoD, i, j, innerLen>>
expVars == <<last, low, link, ops>>
vars == <<fn, line, todo, out, base, m, v1, v3, prs, n, n2,
          heap, s, c, l, t, t2, twoD, i, j, innerLen, vr, last, low, link, ops>>

Min(a, b) == IF a <= b THEN a ELSE b

\* -------------------------------------------------------------------- maps
\* A map is its entries <<[k, v], ...>>, keys unique, in insertion order.

\* make(map[string]int)
MapMake == <<>>

RECURSIVE MapFind(_, _)
\* the position of key k among the entries, 0 when absent
MapFind(mp, k) ==
    IF mp = <<>> THEN 0
    ELSE IF mp[Len(mp)].k = k THEN Len(mp)
    ELSE MapFind(SubSeq(mp, 1, Len(mp) - 1), k)

\* faulty lookup: reports every key present
MapGetAlwaysPresent(mp, k) ==
    LET p == MapFind(mp, k)
    IN  [val |-> IF p = 0 THEN 0 ELSE mp[p].v, ok |-> TRUE]

\* v, ok := mp[k]
MapGet(mp, k) ==
    LET p == MapFind(mp, k)
    IN  IF p = 0 THEN [val |-> 0, ok |-> FALSE] ELSE [val |-> mp[p].v, ok |-> TRUE]

\* mp[k] = v
MapSet(mp, k, v) ==
    LET p == MapFind(mp, k)
    IN  IF p = 0 THEN Append(mp, [k |-> k, v |-> v])
        ELSE [mp EXCEPT ![p] = [k |-> k, v |-> v]]

\* faulty delete: removes nothing
MapDeleteKeeps(mp, k) == mp

\* faulty delete: removes the newest entry, whatever its key
MapDeleteLast(mp, k) ==
    IF mp = <<>> THEN mp ELSE SubSeq(mp, 1, Len(mp) - 1)

\* delete(mp, k)
MapDelete(mp, k) ==
    LET p == MapFind(mp, k)
    IN  IF p = 0 THEN mp
        ELSE SubSeq(mp, 1, p - 1) \o SubSeq(mp, p + 1, Len(mp))

\* faulty clear: leaves the oldest entry
MapClearKeepFirst(mp) == SubSeq(mp, 1, Min(1, Len(mp)))

\* clear(mp)
MapClear(mp) == <<>>

\* len(mp)
MapLen(mp) == Len(mp)

RECURSIVE MapLit(_)
\* map[string]int{k: v, ...}
MapLit(pairs) ==
    IF pairs = <<>> THEN MapMake
    ELSE MapSet(MapLit(SubSeq(pairs, 1, Len(pairs) - 1)),
                pairs[Len(pairs)][1], pairs[Len(pairs)][2])

RECURSIVE MapsEqualFrom(_, _, _)
\* maps.Equal's loop over the entries of m1 from position p on
MapsEqualFrom(m1, m2, p) ==
    IF p > Len(m1) THEN TRUE
    ELSE LET g == MapGet(m2, m1[p].k)
         IN  IF ~g.ok \/ g.val # m1[p].v THEN FALSE
             ELSE MapsEqualFrom(m1, m2, p + 1)

\* faulty comparison: sensitive to the insertion order
MapsEqualSameOrder(m1, m2) == m1 = m2

\* maps.Equal(m1, m2)
MapsEqual(m1, m2) ==
    IF MapLen(m1) # MapLen(m2) THEN FALSE ELSE MapsEqualFrom(m1, m2, 1)

\* ------------------------------------------------------------------ slices
\* A slice is a header [arr, off, len, cap] over backing array heap[arr];
\* arr = 0 is the nil slice.  The heap is the sequence of allocated arrays.

NilSlice == [arr |-> 0, off |-> 0, len |-> 0, cap |-> 0]

ZeroArr(k, z) == [x \in 1..k |-> z]

\* make([]T, k): a fresh array of k zero values; capacity equals length
Make(h, k, z) ==
    [heap |-> Append(h, ZeroArr(k, z)),
     val  |-> [arr |-> Len(h) + 1, off |-> 0, len |-> k, cap |-> k]]

\* the bounds check of sl[x]
InRange(sl, x) == 0 <= x /\ x < sl.len

\* sl[x]
Index(h, sl, x) == h[sl.arr][sl.off + x + 1]

\* sl[x] = v
SetIndex(h, sl, x, v) == [h EXCEPT ![sl.arr][sl.off + x + 1] = v]

\* the elements of sl, as a sequence
Elems(h, sl) == [x \in 1..sl.len |-> h[sl.arr][sl.off + x]]

\* faulty subrange: copies the elements into a new array
SubrangeCopy(h, sl, lo, hi) ==
    [heap |-> Append(h, SubSeq(Elems(h, sl), lo + 1, hi)),
     val  |-> [arr |-> Len(h) + 1, off |-> 0, len |-> hi - lo, cap |-> hi - lo]]

\* sl[lo:hi]: a view of the same array (the heap is returned unchanged)
Subrange(h, sl, lo, hi) ==
    [heap |-> h,
     val  |-> IF sl.arr = 0 THEN NilSlice
              ELSE [arr |-> sl.arr, off |-> sl.off + lo,
                    len |-> hi - lo, cap |-> sl.cap - lo]]

\* whether append(sl, vals...) must allocate
Grows(sl, vals) == sl.len + Len(vals) > sl.cap

\* faulty append: always allocates, and does not copy the old elements
AppendSliceNoCopy(h, sl, vals, newcap, z) ==
    LET need == sl.len + Len(vals)
    IN  [heap |-> Append(h, ZeroArr(sl.len, z) \o vals \o ZeroArr(newcap - need, z)),
         val  |-> [arr |-> Len(h) + 1, off |-> 0, len |-> need, cap |-> newcap]]

\* faulty append: in place, it ignores the offset of the view
AppendSliceNoOffset(h, sl, vals, newcap, z) ==
    LET need == sl.len + Len(vals)
    IN  IF vals = <<>> THEN [heap |-> h, val |-> sl]
        ELSE IF ~Grows(sl, vals)
        THEN [heap |-> [h EXCEPT ![sl.arr] =
                          [x \in 1..Len(@) |->
                             IF x > sl.len /\ x <= need
                             THEN vals[x - sl.len] ELSE @[x]]],
              val  |-> [sl EXCEPT !.len = need]]
        ELSE [heap |-> Append(h, Elems(h, sl) \o vals \o ZeroArr(newcap - need, z)),
              val  |-> [arr |-> Len(h) + 1, off |-> 0, len |-> need, cap |-> newcap]]

\* append(sl, vals...): in place when the capacity suffices, otherwise into
\* a fresh array of capacity newcap >= the new length
AppendSlice(h, sl, vals, newcap, z) ==
    LET need == sl.len + Len(vals)
    IN  IF vals = <<>> THEN [heap |-> h, val |-> sl]
        ELSE IF ~Grows(sl, vals)
        THEN [heap |-> [h EXCEPT ![sl.arr] =
                          [x \in 1..Len(@) |->
                             IF x > sl.off + sl.len /\ x <= sl.off + need
                             THEN vals[x - sl.off - sl.len] ELSE @[x]]],
              val  |-> [sl EXCEPT !.len = need]]
        ELSE [heap |-> Append(h, Elems(h, sl) \o vals \o ZeroArr(newcap - need, z)),
              val  |-> [arr |-> Len(h) + 1, off |-> 0, len |-> need, cap |-> newcap]]

\* the capacities append may choose for a new array
NewCaps(sl, vals) ==
    (sl.len + Len(vals))..(sl.len + Len(vals) + GrowSlack)

\* faulty copy: fills all of dst, with zero values past the end of src
CopySliceAll(h, dst, src) ==
    [heap |-> IF dst.arr = 0 THEN h ELSE
              [h EXCEPT ![dst.arr] =
                 [x \in 1..Len(@) |->
                    IF x > dst.off /\ x <= dst.off + dst.len
                    THEN (IF x - dst.off <= src.len
                          THEN h[src.arr][src.off + (x - dst.off)] ELSE "")
                    ELSE @[x]]],
     cnt  |-> dst.len]

\* copy(dst, src): min(len(dst), len(src)) elements, read before any is written
CopySlice(h, dst, src) ==
    LET cnt == Min(dst.len, src.len)
    IN  [heap |-> IF cnt = 0 THEN h ELSE
                  [h EXCEPT ![dst.arr] =
                     [x \in 1..Len(@) |->
                        IF x > dst.off /\ x <= dst.off + cnt
                        THEN h[src.arr][src.off + (x - dst.off)] ELSE @[x]]],
         cnt  |-> cnt]

RECURSIVE SlicesEqualFrom(_, _, _, _)
\* slices.Equal's loop over the indices of s1 from x on
SlicesEqualFrom(h, s1, s2, x) ==
    IF x >= s1.len THEN TRUE
    ELSE IF Index(h, s1, x) # Index(h, s2, x) THEN FALSE
    ELSE SlicesEqualFrom(h, s1, s2, x + 1)

\* slices.Equal(s1, s2)
SlicesEqual(h, s1, s2) ==
    IF s1.len # s2.len THEN FALSE ELSE SlicesEqualFrom(h, s1, s2, 0)

\* []string{v, ...}
SliceLit(h, elems) ==
    [heap |-> Append(h, elems),
     val  |-> [arr |-> Len(h) + 1, off |-> 0, len |-> Len(elems), cap |-> Len(elems)]]

\* ------------------------------------------------------------- fmt.Println

RECURSIVE Join(_, _)
Join(strs, sep) ==
    IF strs = <<>> THEN ""
    ELSE IF Len(strs) = 1 THEN strs[1]
    ELSE Join(SubSeq(strs, 1, Len(strs) - 1), sep) \o sep \o strs[Len(strs)]

FmtInt(x) == ToString(x)

FmtBool(b) == IF b THEN "true" ELSE "false"

\* a []string prints as [a b c]
FmtStrings(elems) == "[" \o Join(elems, " ") \o "]"

\* a []int prints as [1 2]
FmtInts(elems) == "[" \o Join([x \in 1..Len(elems) |-> FmtInt(elems[x])], " ") \o "]"

\* the keys the routines use, in the order fmt sorts them
KeyOrder == <<"bar", "foo", "k1", "k2", "k3">>

\* a map prints as map[k:v k:v], keys sorted
FmtMap(mp) ==
    LET Has(k) == MapFind(mp, k) # 0
        ks == SelectSeq(KeyOrder, Has)
    IN  "map[" \o Join([x \in 1..Len(ks) |-> ks[x] \o ":" \o FmtInt(MapGet(mp, ks[x]).val)], " ")
               \o "]"

\* fmt.Println(args...): the operands separated by spaces
Println(args) == Join(args, " ")

\* ---------------------------------------------------------------- control

Routines == {"variables", "mapsdemo", "slice"}

\* the first statement and the closing brace of each routine
FirstLine(f) == IF f = "variables" THEN 7 ELSE 12
LastLine(f) == IF f = "variables" THEN 25 ELSE IF f = "mapsdemo" THEN 67 ELSE 93

VrZero == [a |-> "", b |-> 0, c |-> 0, d |-> FALSE, e |-> 0, f |-> ""]
LastZero == [op |-> "none"]

\* the zero state of every local (a frame not yet entered)
LocalsZero ==
    /\ m = MapMake /\ v1 = 0 /\ v3 = 0 /\ prs = FALSE /\ n = MapMake /\ n2 = MapMake
    /\ heap = <<>> /\ s = NilSlice /\ c = NilSlice /\ l = NilSlice
    /\ t = NilSlice /\ t2 = NilSlice /\ twoD = NilSlice
    /\ i = 0 /\ j = 0 /\ innerLen = 0
    /\ vr = VrZero

\* every local back to its zero state
LocalsReset ==
    /\ m' = MapMake /\ v1' = 0 /\ v3' = 0 /\ prs' = FALSE /\ n' = MapMake /\ n2' = MapMake
    /\ heap' = <<>> /\ s' = NilSlice /\ c' = NilSlice /\ l' = NilSlice
    /\ t' = NilSlice /\ t2' = NilSlice /\ twoD' = NilSlice
    /\ i' = 0 /\ j' = 0 /\ innerLen' = 0
    /\ vr' = VrZero

ExpZero == last = LastZero /\ low = 0 /\ link = "none" /\ ops = 0

Init ==
    /\ fn = "main" /\ line = 0 /\ todo = Routines /\ out = <<>> /\ base = 0
    /\ LocalsZero
    /\ ExpZero

\* statement `from` of routine f runs and control passes to statement `to`
Step(f, from, to) ==
    /\ fn = f /\ line = from
    /\ fn' = f /\ line' = to
    /\ UNCHANGED <<todo, base, expVars>>

\* fmt.Println(args...) writes one line to stdout
Emit(args) == out' = Append(out, Println(args))

\* a failed bounds check ends the program
Panic ==
    /\ fn' = "panic"
    /\ UNCHANGED <<line, todo, out, base, mapVars, sliceVars, vr, expVars>>

\* what the current routine has printed so far
Printed == SubSeq(out, base + 1, Len(out))

\* main calls a routine it has not called yet
Call(f) ==
    /\ fn = "main" /\ f \in todo
    /\ fn' = f /\ line' = FirstLine(f) /\ todo' = todo \ {f}
    /\ base' = Len(out)
    /\ UNCHANGED <<out, mapVars, sliceVars, vr, expVars>>

\* the routine reaches its closing brace; its locals go out of scope
Return ==
    /\ fn \in Routines /\ line = LastLine(fn)
    /\ fn' = "main" /\ line' = 0
    /\ LocalsReset
    /\ UNCHANGED <<todo, out, base, expVars>>

\* -------------------------------------------------------------- variables()

variables07 ==
    /\ Step("variables", 7, 8)
    /\ vr' = [vr EXCEPT !.a = "initial"]
    /\ UNCHANGED <<out, mapVars, sliceVars>>

variables08 ==
    /\ Step("variables", 8, 11)
    /\ Emit(<<vr.a>>)
    /\ UNCHANGED <<vr, mapVars, sliceVars>>

variables11 ==
    /\ Step("variables", 11, 12)
    /\ vr' = [vr EXCEPT !.b = 1, !.c = 2]
    /\ UNCHANGED <<out, mapVars, sliceVars>>

variables12 ==
    /\ Step("variables", 12, 15)
    /\ Emit(<<FmtInt(vr.b), FmtInt(vr.c)>>)
    /\ UNCHANGED <<vr, mapVars, sliceVars>>

variables15 ==
    /\ Step("variables", 15, 16)
    /\ vr' = [vr EXCEPT !.d = TRUE]
    /\ UNCHANGED <<out, mapVars, sliceVars>>

variables16 ==
    /\ Step("variables", 16, 19)
    /\ Emit(<<FmtBool(vr.d)>>)
    /\ UNCHANGED <<vr, mapVars, sliceVars>>

variables19 ==
    /\ Step("variables", 19, 20)
    /\ vr' = [vr EXCEPT !.e = 0]
    /\ UNCHANGED <<out, mapVars, sliceVars>>

variables20 ==
    /\ Step("variables", 20, 23)
    /\ Emit(<<FmtInt(vr.e)>>)
    /\ UNCHANGED <<vr, mapVars, sliceVars>>

variables23 ==
    /\ Step("variables", 23, 24)
    /\ vr' = [vr EXCEPT !.f = "apple"]
    /\ UNCHANGED <<out, mapVars, sliceVars>>

variables24 ==
    /\ Step("variables", 24, 25)
    /\ Emit(<<vr.f>>)
    /\ UNCHANGED <<vr, mapVars, sliceVars>>

variablesNext ==
    \/ variables07 \/ variables08 \/ variables11 \/ variables12 \/ variables15
    \/ variables16 \/ variables19 \/ variables20 \/ variables23 \/ variables24

\* --------------------------------------------------------------- mapsdemo()

mapsdemo12 ==
    /\ Step("mapsdemo", 12, 15)
    /\ m' = MapMake
    /\ UNCHANGED <<out, v1, v3, prs, n, n2, sliceVars, vr>>

mapsdemo15 ==
    /\ Step("mapsdemo", 15, 16)
    /\ m' = MapSet(m, "k1", 7)
    /\ UNCHANGED <<out, v1, v3, prs, n, n2, sliceVars, vr>>

mapsdemo16 ==
    /\ Step("mapsdemo", 16, 19)
    /\ m' = MapSet(m, "k2", 13)
    /\ UNCHANGED <<out, v1, v3, prs, n, n2, sliceVars, vr>>

mapsdemo19 ==
    /\ Step("mapsdemo", 19, 22)
    /\ Emit(<<"map:", FmtMap(m)>>)
    /\ UNCHANGED <<mapVars, sliceVars, vr>>

mapsdemo22 ==
    /\ Step("mapsdemo", 22, 23)
    /\ v1' = MapGet(m, "k1").val
    /\ UNCHANGED <<out, m, v3, prs, n, n2, sliceVars, vr>>

mapsdemo23 ==
    /\ Step("mapsdemo", 23, 26)
    /\ Emit(<<"v1:", FmtInt(v1)>>)
    /\ UNCHANGED <<mapVars, sliceVars, vr>>

mapsdemo26 ==
    /\ Step("mapsdemo", 26, 27)
    /\ v3' = MapGet(m, "k3").val
    /\ UNCHANGED <<out, m, v1, prs, n, n2, sliceVars, vr>>

mapsdemo27 ==
    /\ Step("mapsdemo", 27, 30)
    /\ Emit(<<"v3:", FmtInt(v3)>>)
    /\ UNCHANGED <<mapVars, sliceVars, vr>>

mapsdemo30 ==
    /\ Step("mapsdemo", 30, 33)
    /\ Emit(<<"len:", FmtInt(MapLen(m))>>)
    /\ UNCHANGED <<mapVars, sliceVars, vr>>

mapsdemo33 ==
    /\ Step("mapsdemo", 33, 34)
    /\ m' = MapDelete(m, "k2")
    /\ UNCHANGED <<out, v1, v3, prs, n, n2, sliceVars, vr>>

mapsdemo34 ==
    /\ Step("mapsdemo", 34, 37)
    /\ Emit(<<"map:", FmtMap(m)>>)
    /\ UNCHANGED <<mapVars, sliceVars, vr>>

mapsdemo37 ==
    /\ Step("mapsdemo", 37, 38)
    /\ m' = MapClear(m)
    /\ UNCHANGED <<out, v1, v3, prs, n, n2, sliceVars, vr>>

mapsdemo38 ==
    /\ Step("mapsdemo", 38, 43)
    /\ Emit(<<"map:", FmtMap(m)>>)
    /\ UNCHANGED <<mapVars, sliceVars, vr>>

mapsdemo43 ==
    /\ Step("mapsdemo", 43, 44)
    /\ prs' = MapGet(m, "k2").ok
    /\ UNCHANGED <<out, m, v1, v3, n, n2, sliceVars, vr>>

mapsdemo44 ==
    /\ Step("mapsdemo", 44, 47)
    /\ Emit(<<"prs:", FmtBool(prs)>>)
    /\ UNCHANGED <<mapVars, sliceVars, vr>>

mapsdemo47 ==
    /\ Step("mapsdemo", 47, 48)
    /\ n' = MapLit(<< <<"foo", 1>>, <<"bar", 2>> >>)
    /\ UNCHANGED <<out, m, v1, v3, prs, n2, sliceVars, vr>>

mapsdemo48 ==
    /\ Step("mapsdemo", 48, 51)
    /\ Emit(<<"map:", FmtMap(n)>>)
    /\ UNCHANGED <<mapVars, sliceVars, vr>>

mapsdemo51 ==
    /\ Step("mapsdemo", 51, 52)
    /\ n2' = MapLit(<< <<"foo", 1>>, <<"bar", 2>> >>)
    /\ UNCHANGED <<out, m, v1, v3, prs, n, sliceVars, vr>>

mapsdemo52 ==
    /\ Step("mapsdemo", 52, IF MapsEqual(n, n2) THEN 53 ELSE 67)
    /\ UNCHANGED <<out, mapVars, sliceVars, vr>>

mapsdemo53 ==
    /\ Step("mapsdemo", 53, 67)
    /\ Emit(<<"n == n2">>)
    /\ UNCHANGED <<mapVars, sliceVars, vr>>

mapsdemoNext ==
    \/ mapsdemo12 \/ mapsdemo15 \/ mapsdemo16 \/ mapsdemo19 \/ mapsdemo22
    \/ mapsdemo23 \/ mapsdemo26 \/ mapsdemo27 \/ mapsdemo30 \/ mapsdemo33
    \/ mapsdemo34 \/ mapsdemo37 \/ mapsdemo38 \/ mapsdemo43 \/ mapsdemo44
    \/ mapsdemo47 \/ mapsdemo48 \/ mapsdemo51 \/ mapsdemo52 \/ mapsdemo53

\* ------------------------------------------------------------------ slice()

\* the rows of a [][]int, each rendered as a []int
FmtRows(h, sl) ==
    "[" \o Join([x \in 1..sl.len |-> FmtInts(Elems(h, Index(h, sl, x - 1)))], " ") \o "]"

slice12 ==
    /\ Step("slice", 12, 13)
    /\ s' = NilSlice
    /\ UNCHANGED <<out, heap, c, l, t, t2, twoD, i, j, innerLen, mapVars, vr>>

slice13 ==
    /\ Step("slice", 13, 19)
    /\ Emit(<<"uninit:", FmtStrings(Elems(heap, s)), FmtBool(s.arr = 0), FmtBool(s.len = 0)>>)
    /\ UNCHANGED <<sliceVars, mapVars, vr>>

slice19 ==
    /\ Step("slice", 19, 20)
    /\ LET r == Make(heap, 3, "") IN heap' = r.heap /\ s' = r.val
    /\ UNCHANGED <<out, c, l, t, t2, twoD, i, j, innerLen, mapVars, vr>>

slice20 ==
    /\ Step("slice", 20, 23)
    /\ Emit(<<"emp:", FmtStrings(Elems(heap, s)), "len:", FmtInt(s.len), "cap:", FmtInt(s.cap)>>)
    /\ UNCHANGED <<sliceVars, mapVars, vr>>

\* s[x] = v at statement `from`
sliceSet(from, to, x, v) ==
    /\ fn = "slice" /\ line = from
    /\ IF InRange(s, x)
       THEN /\ Step("slice", from, to)
            /\ heap' = SetIndex(heap, s, x, v)
            /\ UNCHANGED <<out, s, c, l, t, t2, twoD, i, j, innerLen, mapVars, vr>>
       ELSE Panic

slice23 == sliceSet(23, 24, 0, "a")

slice24 == sliceSet(24, 25, 1, "b")

slice25 == sliceSet(25, 26, 2, "c")

slice26 ==
    /\ Step("slice", 26, 27)
    /\ Emit(<<"set:", FmtStrings(Elems(heap, s))>>)
    /\ UNCHANGED <<sliceVars, mapVars, vr>>

slice27 ==
    /\ fn = "slice" /\ line = 27
    /\ IF InRange(s, 2)
       THEN /\ Step("slice", 27, 30)
            /\ Emit(<<"get:", Index(heap, s, 2)>>)
            /\ UNCHANGED <<sliceVars, mapVars, vr>>
       ELSE Panic

slice30 ==
    /\ Step("slice", 30, 35)
    /\ Emit(<<"len:", FmtInt(s.len)>>)
    /\ UNCHANGED <<sliceVars, mapVars, vr>>

\* s = append(s, vals...) at statement `from`
sliceAppend(from, to, vals) ==
    /\ Step("slice", from, to)
    /\ \E newcap \in NewCaps(s, vals) :
         LET r == AppendSlice(heap, s, vals, newcap, "")
         IN  heap' = r.heap /\ s' = r.val
    /\ UNCHANGED <<out, c, l, t, t2, twoD, i, j, innerLen, mapVars, vr>>

slice35 == sliceAppend(35, 36, <<"d">>)

slice36 == sliceAppend(36, 37, <<"e", "f">>)

slice37 ==
    /\ Step("slice", 37, 40)
    /\ Emit(<<"apd:", FmtStrings(Elems(heap, s))>>)
    /\ UNCHANGED <<sliceVars, mapVars, vr>>

slice40 ==
    /\ Step("slice", 40, 41)
    /\ LET r == Make(heap, s.len, "") IN heap' = r.heap /\ c' = r.val
    /\ UNCHANGED <<out, s, l, t, t2, twoD, i, j, innerLen, mapVars, vr>>

slice41 ==
    /\ Step("slice", 41, 42)
    /\ heap' = CopySlice(heap, c, s).heap
    /\ UNCHANGED <<out, s, c, l, t, t2, twoD, i, j, innerLen, mapVars, vr>>

slice42 ==
    /\ Step("slice", 42, 45)
    /\ Emit(<<"cpy:", FmtStrings(Elems(heap, c))>>)
    /\ UNCHANGED <<sliceVars, mapVars, vr>>

\* l = s[lo:hi] at statement `from`; the bounds are checked against cap(s)
sliceSub(from, to, lo, hi) ==
    /\ fn = "slice" /\ line = from
    /\ IF 0 <= lo /\ lo <= hi /\ hi <= s.cap
       THEN /\ Step("slice", from, to)
            /\ l' = Subrange(heap, s, lo, hi).val
            /\ heap' = Subrange(heap, s, lo, hi).heap
            /\ UNCHANGED <<out, s, c, t, t2, twoD, i, j, innerLen, mapVars, vr>>
       ELSE Panic

slicePrintL(from, to, tag) ==
    /\ Step("slice", from, to)
    /\ Emit(<<tag, FmtStrings(Elems(heap, l))>>)
    /\ UNCHANGED <<sliceVars, mapVars, vr>>

slice45 == sliceSub(45, 46, 2, 5)

slice46 == slicePrintL(46, 49, "sl1:")

slice49 == sliceSub(49, 50, 0, 5)

slice50 == slicePrintL(50, 53, "sl2:")

slice53 == sliceSub(53, 54, 2, s.len)

slice54 == slicePrintL(54, 57, "sl3:")

slice57 ==
    /\ Step("slice", 57, 58)
    /\ LET r == SliceLit(heap, <<"g", "h", "i">>) IN heap' = r.heap /\ t' = r.val
    /\ UNCHANGED <<out, s, c, l, t2, twoD, i, j, innerLen, mapVars, vr>>

slice58 ==
    /\ Step("slice", 58, 61)
    /\ Emit(<<"dcl:", FmtStrings(Elems(heap, t))>>)
    /\ UNCHANGED <<sliceVars, mapVars, vr>>

slice61 ==
    /\ Step("slice", 61, 62)
    /\ LET r == SliceLit(heap, <<"g", "h", "i">>) IN heap' = r.heap /\ t2' = r.val
    /\ UNCHANGED <<out, s, c, l, t, twoD, i, j, innerLen, mapVars, vr>>

slice62 ==
    /\ Step("slice", 62, IF SlicesEqual(heap, t, t2) THEN 63 ELSE 68)
    /\ UNCHANGED <<out, sliceVars, mapVars, vr>>

slice63 ==
    /\ Step("slice", 63, 68)
    /\ Emit(<<"t == t2">>)
    /\ UNCHANGED <<sliceVars, mapVars, vr>>

\* the number of rows, and of iterations of the outer loop
Rows == 3

slice68 ==
    /\ Step("slice", 68, 69)
    /\ LET r == Make(heap, Rows, NilSlice) IN heap' = r.heap /\ twoD' = r.val
    /\ UNCHANGED <<out, s, c, l, t, t2, i, j, innerLen, mapVars, vr>>

\* for i := range 3: the first test
slice69 ==
    /\ Step("slice", 69, IF 0 < Rows THEN 70 ELSE 76)
    /\ i' = 0
    /\ UNCHANGED <<out, heap, s, c, l, t, t2, twoD, j, innerLen, mapVars, vr>>

\* faulty length: one short
InnerLenShort(x) == x

\* innerLen := i + 1
InnerLen(x) == x + 1

slice70 ==
    /\ Step("slice", 70, 71)
    /\ innerLen' = InnerLen(i)
    /\ UNCHANGED <<out, heap, s, c, l, t, t2, twoD, i, j, mapVars, vr>>

slice71 ==
    /\ fn = "slice" /\ line = 71
    /\ IF InRange(twoD, i)
       THEN /\ Step("slice", 71, 72)
            /\ LET r == Make(heap, innerLen, 0)
               IN  heap' = SetIndex(r.heap, twoD, i, r.val)
            /\ UNCHANGED <<out, s, c, l, t, t2, twoD, i, j, innerLen, mapVars, vr>>
       ELSE Panic

\* for j := range innerLen: the first test
slice72 ==
    /\ Step("slice", 72, IF 0 < innerLen THEN 73 ELSE 75)
    /\ j' = 0
    /\ UNCHANGED <<out, heap, s, c, l, t, t2, twoD, i, innerLen, mapVars, vr>>

\* the value stored at twoD[i][j]
Cell(x, y) == x + y

slice73 ==
    /\ fn = "slice" /\ line = 73
    /\ IF InRange(twoD, i) /\ InRange(Index(heap, twoD, i), j)
       THEN /\ Step("slice", 73, 74)
            /\ heap' = SetIndex(heap, Index(heap, twoD, i), j, Cell(i, j))
            /\ UNCHANGED <<out, s, c, l, t, t2, twoD, i, j, innerLen, mapVars, vr>>
       ELSE Panic

\* the inner loop's next iteration
slice74 ==
    /\ Step("slice", 74, IF j + 1 < innerLen THEN 73 ELSE 75)
    /\ j' = j + 1
    /\ UNCHANGED <<out, heap, s, c, l, t, t2, twoD, i, innerLen, mapVars, vr>>

\* the outer loop's next iteration
slice75 ==
    /\ Step("slice", 75, IF i + 1 < Rows THEN 70 ELSE 76)
    /\ i' = i + 1
    /\ UNCHANGED <<out, heap, s, c, l, t, t2, twoD, j, innerLen, mapVars, vr>>

slice76 ==
    /\ Step("slice", 76, 93)
    /\ Emit(<<"2d: ", FmtRows(heap, twoD)>>)
    /\ UNCHANGED <<sliceVars, mapVars, vr>>

sliceNext ==
    \/ slice12 \/ slice13 \/ slice19 \/ slice20 \/ slice23 \/ slice24 \/ slice25
    \/ slice26 \/ slice27 \/ slice30 \/ slice35 \/ slice36 \/ slice37 \/ slice40
    \/ slice41 \/ slice42 \/ slice45 \/ slice46 \/ slice49 \/ slice50 \/ slice53
    \/ slice54 \/ slice57 \/ slice58 \/ slice61 \/ slice62 \/ slice63 \/ slice68
    \/ slice69 \/ slice70 \/ slice71 \/ slice72 \/ slice73 \/ slice74 \/ slice75
    \/ slice76

\* ------------------------------------------------------------- the program

Next ==
    \/ \E f \in Routines : Call(f)
    \/ Return
    \/ variablesNext
    \/ mapsdemoNext
    \/ sliceNext

Spec == Init /\ [][Next]_vars

\* a sequential program takes its next step whenever it has one
FairSpec == Spec /\ WF_vars(Next)

\* ------------------------------------------------- the routines' own output

\* the output mapsdemo documents
ExpectedMaps ==
    <<"map: map[k1:7 k2:13]", "v1: 7", "v3: 0", "len: 2", "map: map[k1:7]",
      "map: map[]", "prs: false", "map: map[bar:2 foo:1]", "n == n2">>

\* the output slice documents
ExpectedSlice ==
    <<"uninit: [] true true", "emp: [  ] len: 3 cap: 3", "set: [a b c]", "get: c",
      "len: 3", "apd: [a b c d e f]", "cpy: [a b c d e f]", "sl1: [c d e]",
      "sl2: [a b c d e]", "sl3: [c d e f]", "dcl: [g h i]", "t == t2",
      "2d:  [[0] [1 2] [2 3 4]]">>

IsPrefix(a, b) == Len(a) <= Len(b) /\ a = SubSeq(b, 1, Len(a))

\* C1: mapsdemo, run from an empty map, prints its observations in the
\* documented order (what it has printed is always a prefix of the documented
\* output), and by the time get(k2) after clear has been printed all seven
\* are out: {k1:7 k2:13}, 7, 0, 2, {k1:7}, {}, false; the locals hold the
\* values printed.
C1_MapsdemoObservations ==
    fn = "mapsdemo" =>
        /\ IsPrefix(Printed, ExpectedMaps)
        /\ line = 19 => m = <<[k |-> "k1", v |-> 7], [k |-> "k2", v |-> 13]>>
        /\ line = 23 => v1 = 7
        /\ line = 27 => v3 = 0
        /\ line = 34 => m = <<[k |-> "k1", v |-> 7]>>
        /\ line = 38 => m = <<>>
        /\ line = 44 => prs = FALSE
        /\ line >= 47 => SubSeq(Printed, 1, 7) = SubSeq(ExpectedMaps, 1, 7)

C1_Witness == fn = "mapsdemo" /\ line = 47 /\ Len(Printed) = 7

\* C2: slice prints its observations in the documented order, and once
\* s[2:] has been printed the first ten are out: the nil sequence, the
\* allocation of three empty strings with length 3 and capacity 3,
\* [a b c], c, 3, [a b c d e f] after the two appends, the copy, and the
\* three subranges [c d e], [a b c d e], [c d e f].
C2_SliceObservations ==
    fn = "slice" =>
        /\ IsPrefix(Printed, ExpectedSlice)
        /\ line = 20 => s.len = 3 /\ s.cap = 3 /\ Elems(heap, s) = <<"", "", "">>
        /\ line = 37 => Elems(heap, s) = <<"a", "b", "c", "d", "e", "f">>
        /\ line >= 57 => SubSeq(Printed, 1, 10) = SubSeq(ExpectedSlice, 1, 10)

C2_Witness == fn = "slice" /\ line = 57 /\ Len(Printed) = 10

\* the nested sequence as the loop leaves it: row r holds r, r+1, ..., 2r
TwoDBuilt ==
    /\ twoD.len = Rows
    /\ \A r \in 0..(Rows - 1) :
         LET row == Index(heap, twoD, r)
         IN  /\ row.len = r + 1
             /\ \A k \in 0..r : Index(heap, row, k) = r + k

\* every index the loop is about to use is within the sequence it indexes
LoopIndexOK ==
    /\ (fn = "slice" /\ line = 71) => InRange(twoD, i)
    /\ (fn = "slice" /\ line = 73) => InRange(twoD, i) /\ InRange(Index(heap, twoD, i), j)
    /\ ~(fn = "panic" /\ line \in 68..76)

\* C10: the nested-sequence loop of slice terminates (from the allocation of
\* twoD the program always reaches the statement after the loop), leaves
\* twoD with 3 rows, row i of length i + 1 with twoD[i][j] = i + j, and
\* never indexes out of range.
C10_NestedLoop ==
    /\ [](LoopIndexOK /\ ((fn = "slice" /\ line \in {76, 93}) => TwoDBuilt))
    /\ ((fn = "slice" /\ line = 68) ~> (fn = "slice" /\ line = 76))

C10_Witness ==
    fn = "slice" /\ line = 76 /\ TwoDBuilt /\ FmtRows(heap, twoD) = "[[0] [1 2] [2 3 4]]"

\* ------------------------------------------------ the map operations, explored
\* Every operation mapsdemo uses, applied in any order to any key and value.
\* last records the operation just applied and the map it was applied to.

Keys == {"k1", "k2", "k3"}
MapVals == {0, 7, 13}

KeysOf(mp) == {mp[p].k : p \in 1..Len(mp)}

MapInit ==
    /\ fn = "maps" /\ line = 0 /\ todo = {} /\ out = <<>> /\ base = 0
    /\ LocalsZero
    /\ ExpZero

MapOp(op, k, v) == [op |-> op, k |-> k, v |-> v, pre |-> m, prev |-> last.op]

MapFrame == UNCHANGED <<ctl, v1, v3, prs, n, n2, sliceVars, vr, low, link, ops>>

OpSet(k, v) ==
    /\ fn = "maps"
    /\ m' = MapSet(m, k, v)
    /\ last' = MapOp("set", k, v)
    /\ MapFrame

OpGet(k) ==
    /\ fn = "maps"
    /\ last' = MapOp("get", k, MapGet(m, k).val)
    /\ m' = m
    /\ MapFrame

OpDelete(k) ==
    /\ fn = "maps"
    /\ m' = MapDelete(m, k)
    /\ last' = MapOp("delete", k, 0)
    /\ MapFrame

OpClear ==
    /\ fn = "maps"
    /\ m' = MapClear(m)
    /\ last' = MapOp("clear", "", 0)
    /\ MapFrame

OpLen ==
    /\ fn = "maps"
    /\ last' = MapOp("len", "", MapLen(m))
    /\ m' = m
    /\ MapFrame

MapNext ==
    \/ \E k \in Keys, v \in MapVals : OpSet(k, v)
    \/ \E k \in Keys : OpGet(k)
    \/ \E k \in Keys : OpDelete(k)
    \/ OpClear
    \/ OpLen

SpecMap == MapInit /\ [][MapNext]_vars

Absent == [val |-> 0, ok |-> FALSE]

\* C3: after set(m, k, v), get(m, k) is (v, true), also for v = 0; a key
\* with no entry in m gets (0, false); so a stored 0 and an absent key differ
\* in the presence flag.
C3_SetThenGet ==
    /\ last.op = "set" => MapGet(m, last.k) = [val |-> last.v, ok |-> TRUE]
    /\ \A k \in Keys : k \notin KeysOf(m) => MapGet(m, k) = Absent
    /\ \A k \in Keys : k \in KeysOf(m) => MapGet(m, k).ok

C3_Witness ==
    /\ last.op = "set" /\ last.v = 0
    /\ MapGet(m, last.k) = [val |-> 0, ok |-> TRUE]
    /\ \E k \in Keys : MapGet(m, k) = Absent

\* C4: after delete(m, k), get(m, k) reports absent, every other key keeps
\* its value, the size drops by one if k was present, and if k was absent
\* the map is unchanged; delete never fails.
C4_Delete ==
    last.op = "delete" =>
        /\ ~MapGet(m, last.k).ok
        /\ \A k \in Keys \ {last.k} : MapGet(m, k) = MapGet(last.pre, k)
        /\ MapLen(m) = MapLen(last.pre) - (IF MapGet(last.pre, last.k).ok THEN 1 ELSE 0)
        /\ ~MapGet(last.pre, last.k).ok => m = last.pre
        /\ fn # "panic"

C4_Witness ==
    /\ last.op = "delete" /\ MapGet(last.pre, last.k).ok
    /\ MapLen(last.pre) = 3 /\ MapLen(m) = 2

\* C5: after clear(m), also of the empty map, the size is 0 and every lookup
\* reports absent; the map stays usable: a set right after gives size 1.
C5_Clear ==
    /\ last.op = "clear" => MapLen(m) = 0 /\ \A k \in Keys : ~MapGet(m, k).ok
    /\ (last.op = "set" /\ last.prev = "clear") =>
          MapLen(m) = 1 /\ MapGet(m, last.k) = [val |-> last.v, ok |-> TRUE]

C5_Witness == last.op = "clear" /\ MapLen(last.pre) = 3 /\ MapLen(m) = 0

\* ---------------------------------------------- the slice operations, explored
\* Every operation slice() uses on s, its view l and its copy c, applied in
\* any order, starting from the nil s or from s holding the first k of the
\* letters slice() stores.  last records the operation just applied; low is
\* the lower bound of the last l = s[low:high]; link is "shared" from that
\* subrange until an append reallocates s or l, and "detached" after.

\* the values slice() stores and appends
Letters == <<"a", "b", "c", "d", "e", "f">>
\* the two appends of slice()
AppendLists == {<<"d">>, <<"e", "f">>}
\* values no element holds before they are written
Written == {"x", "y"}

\* the length slice() allocates
SliceLen == 3

SliceOp(op, x, y, v, vals, grew, cnt) ==
    [op |-> op, x |-> x, y |-> y, v |-> v, vals |-> vals, grew |-> grew, cnt |-> cnt]

\* every local but heap, s, l, c is zero
OthersZero ==
    /\ m = MapMake /\ v1 = 0 /\ v3 = 0 /\ prs = FALSE /\ n = MapMake /\ n2 = MapMake
    /\ t = NilSlice /\ t2 = NilSlice /\ twoD = NilSlice
    /\ i = 0 /\ j = 0 /\ innerLen = 0
    /\ vr = VrZero

\* the heap and s at the start: s nil (k = 0) or []string{"a", ...} of length k
StartHeap(k) == IF k = 0 THEN <<>> ELSE SliceLit(<<>>, SubSeq(Letters, 1, k)).heap
StartS(k) == IF k = 0 THEN NilSlice ELSE SliceLit(<<>>, SubSeq(Letters, 1, k)).val

OpsLimit ==
    IF fn = "slices" THEN MaxOps ELSE IF fn = "appends" THEN MaxAppends ELSE MaxCopyOps

SliceFrame ==
    /\ fn \in {"slices", "appends", "copies"}
    /\ ops < OpsLimit /\ ops' = ops + 1
    /\ UNCHANGED <<ctl, mapVars, t, t2, twoD, i, j, innerLen, vr>>

\* s[x] = v
OpSetS(x, v) ==
    /\ InRange(s, x)
    /\ heap' = SetIndex(heap, s, x, v)
    /\ last' = SliceOp("sets", x, 0, v, <<>>, FALSE, 0)
    /\ UNCHANGED <<s, l, c, low, link>>
    /\ SliceFrame

\* l[x] = v
OpSetL(x, v) ==
    /\ InRange(l, x)
    /\ heap' = SetIndex(heap, l, x, v)
    /\ last' = SliceOp("setl", x, 0, v, <<>>, FALSE, 0)
    /\ UNCHANGED <<s, l, c, low, link>>
    /\ SliceFrame

\* s = append(s, vals...)
OpAppendS(vals) ==
    /\ \E newcap \in NewCaps(s, vals) :
         LET r == AppendSlice(heap, s, vals, newcap, "")
         IN  heap' = r.heap /\ s' = r.val
    /\ last' = SliceOp("appends", 0, 0, "", vals, Grows(s, vals), 0)
    /\ link' = IF Grows(s, vals) /\ link = "shared" THEN "detached" ELSE link
    /\ UNCHANGED <<l, c, low>>
    /\ SliceFrame

\* l = append(l, vals...)
OpAppendL(vals) ==
    /\ \E newcap \in NewCaps(l, vals) :
         LET r == AppendSlice(heap, l, vals, newcap, "")
         IN  heap' = r.heap /\ l' = r.val
    /\ last' = SliceOp("appendl", 0, 0, "", vals, Grows(l, vals), 0)
    /\ link' = IF Grows(l, vals) /\ link = "shared" THEN "detached" ELSE link
    /\ UNCHANGED <<s, c, low>>
    /\ SliceFrame

\* l = s[lo:hi]
OpSub(lo, hi) ==
    /\ 0 <= lo /\ lo <= hi /\ hi <= s.len
    /\ l' = Subrange(heap, s, lo, hi).val
    /\ heap' = Subrange(heap, s, lo, hi).heap
    /\ last' = SliceOp("sub", lo, hi, "", <<>>, FALSE, 0)
    /\ low' = lo /\ link' = "shared"
    /\ UNCHANGED <<s, c>>
    /\ SliceFrame

Named(who) == IF who = "s" THEN s ELSE IF who = "l" THEN l ELSE c

\* copy(dst, src), dst one of c, l and src one of s, l
OpCopy(dst, src) ==
    /\ LET r == CopySlice(heap, Named(dst), Named(src))
       IN  /\ heap' = r.heap
           /\ last' = SliceOp("copy", 0, 0, "", <<dst, src>>, FALSE, r.cnt)
    /\ UNCHANGED <<s, l, c, low, link>>
    /\ SliceFrame

\* the subrange exploration: views, writes through either alias, appends
SliceInit ==
    /\ fn = "slices" /\ line = 0 /\ todo = {} /\ out = <<>> /\ base = 0
    /\ \E k \in 0..SliceLen : heap = StartHeap(k) /\ s = StartS(k)
    /\ l = NilSlice /\ c = NilSlice
    /\ OthersZero
    /\ ExpZero

SliceNext ==
    \/ \E x \in 0..(s.len - 1), v \in Written : OpSetS(x, v)
    \/ \E x \in 0..(l.len - 1), v \in Written : OpSetL(x, v)
    \/ OpAppendS(<<"d">>)
    \/ OpAppendL(<<"d">>)
    \/ \E lo \in 0..s.len, hi \in 0..s.len : OpSub(lo, hi)

SpecSlice == SliceInit /\ [][SliceNext]_vars

\* the append exploration: s and a view l = s[lo:hi] of it, then appends
AppendInit ==
    /\ fn = "appends" /\ line = 0 /\ todo = {} /\ out = <<>> /\ base = 0
    /\ \E k \in 0..SliceLen :
         /\ heap = StartHeap(k) /\ s = StartS(k)
         /\ \E lo \in 0..k, hi \in 0..k :
              /\ lo <= hi
              /\ l = Subrange(StartHeap(k), StartS(k), lo, hi).val
              /\ low = lo
    /\ c = NilSlice
    /\ OthersZero
    /\ last = LastZero /\ link = "shared" /\ ops = 0

AppendNext ==
    \/ \E vals \in AppendLists : OpAppendS(vals)
    \/ \E vals \in AppendLists : OpAppendL(vals)

SpecAppend == AppendInit /\ [][AppendNext]_vars

\* the copy exploration: s and c := make([]string, k), then views, copies, writes
CopyInit ==
    /\ fn = "copies" /\ line = 0 /\ todo = {} /\ out = <<>> /\ base = 0
    /\ \E k \in 0..SliceLen, kc \in 0..(SliceLen + 1) :
         LET r == Make(StartHeap(k), kc, "")
         IN  heap = r.heap /\ s = StartS(k) /\ c = r.val
    /\ l = NilSlice
    /\ OthersZero
    /\ ExpZero

CopyNext ==
    \/ \E x \in 0..(s.len - 1), v \in Written : OpSetS(x, v)
    \/ \E lo \in 0..s.len, hi \in 0..s.len : OpSub(lo, hi)
    \/ \E dst \in {"c", "l"}, src \in {"s", "l"} : OpCopy(dst, src)

SpecCopy == CopyInit /\ [][CopyNext]_vars

\* the sequence an append step appended to, and the sequence it returned
Appended == IF last'.op = "appends" THEN s ELSE l
Returned == IF last'.op = "appends" THEN s' ELSE l'

\* C6: append(s, values...) returns a sequence of length L + n, capacity at
\* least that, whose first L elements are the elements of s and whose last n
\* are the values, in order; it is a view of the same storage when the
\* capacity sufficed and of fresh storage, the old left as it was, when not.
C6_Append ==
    [][last'.op \in {"appends", "appendl"} =>
         LET L == Appended.len
             cnt == Len(last'.vals)
             after == Elems(heap', Returned)
         IN  /\ Returned.cap >= Returned.len
             /\ Returned.len = L + cnt
             /\ SubSeq(after, 1, L) = Elems(heap, Appended)
             /\ SubSeq(after, L + 1, L + cnt) = last'.vals
             /\ L + cnt <= Appended.cap =>
                   Returned.arr = Appended.arr /\ Returned.off = Appended.off
             /\ L + cnt > Appended.cap =>
                   /\ Returned.arr \notin 1..Len(heap)
                   /\ \A a \in 1..Len(heap) : heap'[a] = heap[a]]_vars

C6_Witness ==
    /\ last.op = "appends" /\ last.grew /\ last.vals = <<"d">>
    /\ s.len = 4 /\ s.cap >= 4 /\ Elems(heap, s) = <<"a", "b", "c", "d">>
    /\ Len(heap[1]) = 3

\* C7: l = s[low:high] has length high - low and shares s's storage: until an
\* append reallocates s or l, a write to l[x] is read back at s[low + x] and a
\* write to s inside the view is read back through l; the reallocating append
\* leaves the other alias's elements as they were, and after it a write
\* through one is not seen through the other.
C7_Subrange ==
    [][/\ last'.op = "sub" =>
            /\ l'.len = last'.y - last'.x
            /\ \A x \in 0..(l'.len - 1) : Index(heap', l', x) = Index(heap', s', last'.x + x)
       /\ (link' = "shared" /\ s'.arr # 0) => l'.arr = s'.arr /\ l'.off = s'.off + low'
       /\ (link = "shared" /\ last'.op = "setl" /\ low + last'.x < s.len) =>
            Index(heap', s', low + last'.x) = last'.v
       /\ (link = "shared" /\ last'.op = "sets" /\ low <= last'.x /\ last'.x < low + l.len) =>
            Index(heap', l', last'.x - low) = last'.v
       /\ (last'.op = "appends" /\ last'.grew) => Elems(heap', l') = Elems(heap, l)
       /\ (last'.op = "appendl" /\ last'.grew) => Elems(heap', s') = Elems(heap, s)
       /\ (link = "detached" /\ last'.op = "sets") => Elems(heap', l') = Elems(heap, l)
       /\ (link = "detached" /\ last'.op = "setl") => Elems(heap', s') = Elems(heap, s)]_vars

C7_Witness ==
    /\ link = "detached" /\ last.op = "sets"
    /\ low <= last.x /\ last.x < low + l.len
    /\ Index(heap, s, last.x) = last.v
    /\ Index(heap, l, last.x - low) # last.v

\* what a copy step must do, given its destination and source
CopyEffect(dst, src) ==
    /\ last'.cnt = Min(dst.len, src.len)
    /\ \A x \in 0..(last'.cnt - 1) : Index(heap', dst, x) = Index(heap', src, x)
    /\ \A x \in last'.cnt..(dst.len - 1) : Index(heap', dst, x) = Index(heap, dst, x)
    /\ <<s', l', c'>> = <<s, l, c>>
    /\ Elems(heap', src) = Elems(heap, src)

\* C8 as stated: for every pair dst, src, copy(dst, src) returns
\* min(len(dst), len(src)), makes that many elements of dst those of src,
\* leaves the rest of dst, its length, and src unchanged.
C8_CopyAnyPair ==
    [][last'.op = "copy" =>
         CopyEffect(Named(last'.vals[1]), Named(last'.vals[2]))]_vars

\* C8, amended: the same for every dst and src that do not share backing
\* storage, as the freshly allocated c of slice() and s do not; and a later
\* write to s is then not seen through c.
C8_CopyDisjoint ==
    [][/\ (last'.op = "copy" /\ Named(last'.vals[1]).arr # Named(last'.vals[2]).arr) =>
            CopyEffect(Named(last'.vals[1]), Named(last'.vals[2]))
       /\ (last'.op = "sets" /\ c.arr # s.arr) => Elems(heap', c) = Elems(heap, c)]_vars

C8_Witness ==
    /\ last.op = "sets" /\ s.len = 3 /\ c.len = 4 /\ c.arr # s.arr
    /\ Elems(heap, c) = <<"a", "b", "c", "">>
    /\ Elems(heap, s) # <<"a", "b", "c">>

\* ------------------------------------------------------- equality, explored
\* n and n2 are built entry by entry in any order and compared with
\* maps.Equal; t and t2 are declared from any literals and compared with
\* slices.Equal.

EqKeys == {"foo", "bar"}
EqVals == {1, 2}
LitVals == {"g", "h", "i"}
\* the length of the literals slice() declares
LitLen == 3

RECURSIVE Lits(_)
\* the literals of length at most k
Lits(k) ==
    IF k = 0 THEN {<<>>}
    ELSE Lits(k - 1) \cup {Append(e, v) : e \in {x \in Lits(k - 1) : Len(x) = k - 1}, v \in LitVals}

EqualInit ==
    /\ fn \in {"equalmaps", "equalslices"}
    /\ line = 0 /\ todo = {} /\ out = <<>> /\ base = 0
    /\ LocalsZero
    /\ ExpZero

EqOp(op, res) == [op |-> op, res |-> res]

EqFrame == UNCHANGED <<ctl, m, v1, v3, prs, s, c, l, twoD, i, j, innerLen, vr, low, link, ops>>

\* n[k] = v
OpSetN(k, v) ==
    /\ fn = "equalmaps"
    /\ n' = MapSet(n, k, v)
    /\ last' = EqOp("setn", FALSE)
    /\ UNCHANGED <<n2, heap, t, t2>>
    /\ EqFrame

\* n2[k] = v
OpSetN2(k, v) ==
    /\ fn = "equalmaps"
    /\ n2' = MapSet(n2, k, v)
    /\ last' = EqOp("setn2", FALSE)
    /\ UNCHANGED <<n, heap, t, t2>>
    /\ EqFrame

\* maps.Equal(n, n2)
OpMapsEqual ==
    /\ fn = "equalmaps"
    /\ last' = EqOp("mapsequal", MapsEqual(n, n2))
    /\ UNCHANGED <<n, n2, heap, t, t2>>
    /\ EqFrame

\* t := []string{...}
OpLitT(elems) ==
    /\ fn = "equalslices" /\ t = NilSlice
    /\ LET r == SliceLit(heap, elems) IN heap' = r.heap /\ t' = r.val
    /\ last' = EqOp("litt", FALSE)
    /\ UNCHANGED <<n, n2, t2>>
    /\ EqFrame

\* t2 := []string{...}
OpLitT2(elems) ==
    /\ fn = "equalslices" /\ t2 = NilSlice
    /\ LET r == SliceLit(heap, elems) IN heap' = r.heap /\ t2' = r.val
    /\ last' = EqOp("litt2", FALSE)
    /\ UNCHANGED <<n, n2, t>>
    /\ EqFrame

\* slices.Equal(t, t2)
OpSlicesEqual ==
    /\ fn = "equalslices"
    /\ last' = EqOp("slicesequal", SlicesEqual(heap, t, t2))
    /\ UNCHANGED <<n, n2, heap, t, t2>>
    /\ EqFrame

EqualNext ==
    \/ \E k \in EqKeys, v \in EqVals : OpSetN(k, v)
    \/ \E k \in EqKeys, v \in EqVals : OpSetN2(k, v)
    \/ OpMapsEqual
    \/ \E elems \in Lits(LitLen) : OpLitT(elems)
    \/ \E elems \in Lits(LitLen) : OpLitT2(elems)
    \/ OpSlicesEqual

SpecEqual == EqualInit /\ [][EqualNext]_vars

\* same key set, same value for each key
SameEntries(m1, m2) ==
    /\ KeysOf(m1) = KeysOf(m2)
    /\ \A k \in KeysOf(m1) : MapGet(m1, k).val = MapGet(m2, k).val

\* same length, equal elements at every index
SameElems(h, s1, s2) ==
    /\ s1.len = s2.len
    /\ \A x \in 0..(s1.len - 1) : Index(h, s1, x) = Index(h, s2, x)

\* C9: equal is reflexive and symmetric for maps and for sequences; two maps
\* are equal iff they have the same keys with the same values, whatever the
\* order their entries were inserted in; two sequences are equal iff they
\* have the same length and equal elements at every index.
C9_Equal ==
    /\ last.op = "mapsequal" =>
          /\ last.res = SameEntries(n, n2)
          /\ last.res = MapsEqual(n2, n)
          /\ MapsEqual(n, n) /\ MapsEqual(n2, n2)
    /\ last.op = "slicesequal" =>
          /\ last.res = SameElems(heap, t, t2)
          /\ last.res = SlicesEqual(heap, t2, t)
          /\ SlicesEqual(heap, t, t) /\ SlicesEqual(heap, t2, t2)

C9_Witness ==
    /\ last.op = "mapsequal" /\ last.res
    /\ n = <<[k |-> "foo", v |-> 1], [k |-> "bar", v |-> 2]>>
    /\ n2 = <<[k |-> "bar", v |-> 2], [k |-> "foo", v |-> 1]>>

====
